---- MODULE Spec2Model ----
(***************************************************************************)
(* Model of app.py: a Flask application with an in-memory user store       *)
(* (USERS), a per-client session, and the handlers index, register,        *)
(* login, dashboard and logout.                                            *)
(*                                                                         *)
(* Each request is handled to completion in one step.  Python values that  *)
(* the handlers test for truth (form fields, session entries) are modelled *)
(* as records that distinguish None from a string, so that `not x` and     *)
(* `!=` are computed as Python computes them.                              *)
(***************************************************************************)
EXTENDS Naturals, FiniteSets, Sequences, TLC

(***************************************************************************)
(* Bounds of the model.                                                    *)
(***************************************************************************)
NumClients == 2
NumIdentities == 2
NumPasswords == 2

\* Strings the clients may submit.  Adjacent entries differ in case only.
IdentityPool ==
  <<"alice@example.com", "Alice@example.com", "bob@example.com", "Bob@example.com">>
PasswordPool == <<"pw123", "PW123", "wrong", "WRONG">>

Clients == 1..NumClients
Identities == {IdentityPool[i] : i \in 1..NumIdentities}
Passwords == {PasswordPool[i] : i \in 1..NumPasswords}

(***************************************************************************)
(* Python values.                                                          *)
(***************************************************************************)
None == [isNone |-> TRUE, s |-> ""]
Str(x) == [isNone |-> FALSE, s |-> x]

\* bool(v) of a value that is None or a str: None and '' are falsy.
TruthyNoneOnly(v) == ~v.isNone
Truthy(v) == ~v.isNone /\ v.s /= ""

\* A dict with no entries (an empty form, an empty session, USERS = {}).
EmptyDict == [k \in {} |-> None]

\* d.get(key): the value, or None when the key is absent.
DictGet(d, key) == IF key \in DOMAIN d THEN d[key] ELSE None

\* d[key] = value: inserts the key or overwrites its value.
DictSetFresh(d, key, value) == [k \in {key} |-> value]
DictSet(d, key, value) ==
  [k \in (DOMAIN d) \cup {key} |-> IF k = key THEN value ELSE d[k]]

\* d.pop(key, None): removes the key when present, no error when absent.
DictPopKeep(d, key) == d
DictPop(d, key) == [k \in (DOMAIN d) \ {key} |-> d[k]]

(***************************************************************************)
(* Requests.  request.form is a dict from field names to strings; a field  *)
(* the client did not send is absent from it.                              *)
(***************************************************************************)
FieldValues(field) ==
  CASE field = "email" -> Identities \cup {""}
    [] field = "password" -> Passwords \cup {""}
    [] field = "role" -> {"admin"}

\* The forms whose fields are among `fields`, each field sent or not.
FormsOver(fields) ==
  LET strings == UNION {FieldValues(f) : f \in fields}
  IN { form \in UNION {[D -> strings] : D \in SUBSET fields} :
         \A f \in DOMAIN form : form[f] \in FieldValues(f) }

\* A registration may carry a role field besides the two the handler reads.
RegisterForms == FormsOver({"email", "password", "role"})
LoginForms == FormsOver({"email", "password"})

\* request.form.get(field)
FormGet(form, field) == IF field \in DOMAIN form THEN Str(form[field]) ELSE None

(***************************************************************************)
(* Responses.                                                              *)
(***************************************************************************)
\* redirect(url_for(endpoint))
Redirect(endpoint) ==
  [kind |-> "redirect", target |-> endpoint, template |-> "", error |-> "",
   welcome |-> None]

\* render_template(template, error=error)
RenderTemplate(template, error) ==
  [kind |-> "template", target |-> "", template |-> template, error |-> error,
   welcome |-> None]

\* The dashboard page: 'Welcome, {}'.format(user) with a link to logout.
DashboardPage(user) ==
  [kind |-> "html", target |-> "logout", template |-> "", error |-> "",
   welcome |-> user]

NoResponse ==
  [kind |-> "", target |-> "", template |-> "", error |-> "", welcome |-> None]

NoRequest == [client |-> 0, route |-> "", method |-> "", form |-> EmptyDict]

(***************************************************************************)
(* State.                                                                  *)
(*   USERS        the user store: email -> [password, role]                *)
(*   session      each client's session dict                               *)
(*   request      the request in flight, NoRequest when the server is idle *)
(*   response     the response the handler returned for it                 *)
(*   prevUSERS, prevSession   USERS and session as that request found them *)
(*   lastAuth     per client, the latest of its session-changing outcomes: *)
(*                "none" at first, "in" with the identity a register or    *)
(*                login established, "out" after a logout                  *)
(* Requests are handled one at a time: a handler runs to completion on an  *)
(* idle server, and its response is sent before the next request.          *)
(***************************************************************************)
VARIABLES USERS, session, request, response, prevUSERS, prevSession, lastAuth

vars == <<USERS, session, request, response, prevUSERS, prevSession, lastAuth>>

Methods == {"GET", "POST"}

Init ==
  /\ USERS = EmptyDict
  /\ session = [c \in Clients |-> EmptyDict]
  /\ request = NoRequest
  /\ response = NoResponse
  /\ prevUSERS = EmptyDict
  /\ prevSession = [c \in Clients |-> EmptyDict]
  /\ lastAuth = [c \in Clients |-> [kind |-> "none", id |-> None]]

\* Bookkeeping common to every handler: the request and the state it found.
Receive(c, route, method, form) ==
  /\ request = NoRequest
  /\ request' = [client |-> c, route |-> route, method |-> method, form |-> form]
  /\ prevUSERS' = USERS
  /\ prevSession' = session

(***************************************************************************)
(* Session access of client c: session['user_id'] = v, session.get, pop.   *)
(***************************************************************************)
SessionSetShared(sess, c, v) == [d \in DOMAIN sess |-> DictSet(sess[d], "user_id", v)]
SessionSetDefault(sess, c, v) ==
  IF "user_id" \in DOMAIN sess[c] THEN sess ELSE [sess EXCEPT ![c] = DictSet(@, "user_id", v)]
SessionSet(sess, c, v) == [sess EXCEPT ![c] = DictSet(@, "user_id", v)]

SessionGet(sess, c) == DictGet(sess[c], "user_id")

SessionPopAll(sess, c) == [d \in DOMAIN sess |-> DictPop(sess[d], "user_id")]
SessionPop(sess, c) == [sess EXCEPT ![c] = DictPop(@, "user_id")]

(***************************************************************************)
(* index                                                                   *)
(***************************************************************************)
index(c) ==
  /\ Receive(c, "index", "GET", EmptyDict)
  /\ response' = RenderTemplate("index.html", "")
  /\ UNCHANGED <<USERS, session, lastAuth>>

(***************************************************************************)
(* register                                                                *)
(***************************************************************************)
\* role = 'user': the role stored never comes from the form.
RegisterRoleFromForm(form) == IF "role" \in DOMAIN form THEN form["role"] ELSE "user"
RegisterRole(form) == "user"

\* The error the POST branch computes; '' when the account is to be created.
RegisterErrorNoDuplicateCheck(users, email, password) ==
  IF ~Truthy(email) \/ ~Truthy(password) THEN "Email and password are required."
  ELSE ""
RegisterErrorDuplicateFirst(users, email, password) ==
  IF email \in DOMAIN users THEN "User already exists."
  ELSE IF ~Truthy(email) \/ ~Truthy(password) THEN "Email and password are required."
  ELSE ""
RegisterError(users, email, password) ==
  IF ~Truthy(email) \/ ~Truthy(password) THEN "Email and password are required."
  ELSE IF email \in DOMAIN users THEN "User already exists."
  ELSE ""

register(c, method, form) ==
  LET email == FormGet(form, "email")
      password == FormGet(form, "password")
      role == RegisterRole(form)
      error == IF method = "POST" THEN RegisterError(USERS, email, password) ELSE ""
  IN /\ Receive(c, "register", method, form)
     /\ IF method = "POST" /\ error = ""
        THEN /\ USERS' = DictSet(USERS, email, [password |-> password, role |-> role])
             /\ session' = SessionSet(session, c, email)
             /\ response' = Redirect("dashboard")
             /\ lastAuth' = [lastAuth EXCEPT ![c] = [kind |-> "in", id |-> email]]
        ELSE /\ response' = RenderTemplate("register.html", error)
             /\ UNCHANGED <<USERS, session, lastAuth>>

(***************************************************************************)
(* login                                                                   *)
(***************************************************************************)
\* user = USERS.get(email); not user or user.get('password') != password.
\* A stored account is a dict of two entries, so `not user` is `user is None`.
LoginErrorNoPasswordCheck(users, email, password) ==
  IF email \notin DOMAIN users THEN "Invalid credentials." ELSE ""
LoginErrorDistinguishing(users, email, password) ==
  IF email \notin DOMAIN users THEN "Unknown user."
  ELSE IF users[email].password /= password THEN "Wrong password."
  ELSE ""
\* `user and ...` in place of `not user or ...`: an unknown identity passes.
LoginErrorUnknownAccepted(users, email, password) ==
  IF email \in DOMAIN users /\ users[email].password /= password
  THEN "Invalid credentials."
  ELSE ""
LoginError(users, email, password) ==
  IF email \notin DOMAIN users \/ users[email].password /= password
  THEN "Invalid credentials."
  ELSE ""

\* What a failed login does to the session: nothing.
LoginFailureSessionCleared(sess, c) == SessionPop(sess, c)
LoginFailureSession(sess, c) == sess

login(c, method, form) ==
  LET email == FormGet(form, "email")
      password == FormGet(form, "password")
      error == IF method = "POST" THEN LoginError(USERS, email, password) ELSE ""
  IN /\ Receive(c, "login", method, form)
     /\ UNCHANGED USERS
     /\ IF method = "POST" /\ error = ""
        THEN /\ session' = SessionSet(session, c, email)
             /\ response' = Redirect("dashboard")
             /\ lastAuth' = [lastAuth EXCEPT ![c] = [kind |-> "in", id |-> email]]
        ELSE /\ session' = LoginFailureSession(session, c)
             /\ response' = RenderTemplate("login.html", error)
             /\ UNCHANGED lastAuth

(***************************************************************************)
(* dashboard                                                               *)
(***************************************************************************)
DashboardAlwaysGranted(sess, c) == DashboardPage(SessionGet(sess, c))
DashboardResponse(sess, c) ==
  IF ~Truthy(SessionGet(sess, c))
  THEN Redirect("login")
  ELSE DashboardPage(SessionGet(sess, c))

dashboard(c) ==
  /\ Receive(c, "dashboard", "GET", EmptyDict)
  /\ response' = DashboardResponse(session, c)
  /\ UNCHANGED <<USERS, session, lastAuth>>

(***************************************************************************)
(* logout                                                                  *)
(***************************************************************************)
\* session.pop('user_id') without a default: KeyError when the key is absent.
logoutStrict(c) ==
  /\ Receive(c, "logout", "GET", EmptyDict)
  /\ session' = SessionPop(session, c)
  /\ response' = IF "user_id" \in DOMAIN session[c]
                 THEN Redirect("index")
                 ELSE RenderTemplate("500", "KeyError")
  /\ lastAuth' = [lastAuth EXCEPT ![c] = [kind |-> "out", id |-> None]]
  /\ UNCHANGED USERS
logout(c) ==
  /\ Receive(c, "logout", "GET", EmptyDict)
  /\ session' = SessionPop(session, c)
  /\ response' = Redirect("index")
  /\ lastAuth' = [lastAuth EXCEPT ![c] = [kind |-> "out", id |-> None]]
  /\ UNCHANGED USERS

(***************************************************************************)
(* A GET carries no form; a POST carries any form the client chooses.      *)
(***************************************************************************)
RequestForms(forms, method) == IF method = "POST" THEN forms ELSE {EmptyDict}

\* The response has been sent: the exchange is over and the server is idle.
complete ==
  /\ request /= NoRequest
  /\ request' = NoRequest
  /\ response' = NoResponse
  /\ prevUSERS' = USERS
  /\ prevSession' = session
  /\ UNCHANGED <<USERS, session, lastAuth>>

\* A handler is called only on an idle server (the guard of Receive, stated
\* here before the request is chosen).
Next ==
  \/ request = NoRequest /\ \E c \in Clients : index(c)
  \/ request = NoRequest /\ \E c \in Clients, method \in Methods :
       \E form \in RequestForms(RegisterForms, method) : register(c, method, form)
  \/ request = NoRequest /\ \E c \in Clients, method \in Methods :
       \E form \in RequestForms(LoginForms, method) : login(c, method, form)
  \/ request = NoRequest /\ \E c \in Clients : dashboard(c)
  \/ request = NoRequest /\ \E c \in Clients : logout(c)
  \/ complete

Spec == Init /\ [][Next]_vars

(***************************************************************************)
(* Vocabulary of the properties.  They are stated on the exchange in       *)
(* flight: the request, the state it found, the response and the state it  *)
(* left.                                                                   *)
(***************************************************************************)
InFlight(route, method) == request.route = route /\ request.method = method

Client == request.client
Email == FormGet(request.form, "email")
Password == FormGet(request.form, "password")

\* A field that was sent and is not the empty string.
HasText(v) == v.isNone = FALSE /\ Len(v.s) > 0

\* The session of a client authenticated as identity v, and of an anonymous one.
Authenticated(v) == [k \in {"user_id"} |-> v]
Anonymous == [k \in {} |-> None]

Succeeded == response = Redirect("dashboard")
RegisterSucceeded == InFlight("register", "POST") /\ Succeeded
LoginSucceeded == InFlight("login", "POST") /\ Succeeded

InvalidCredentials == response = RenderTemplate("login.html", "Invalid credentials.")
ValidationFailed ==
  response = RenderTemplate("register.html", "Email and password are required.")
DuplicateIdentity == response = RenderTemplate("register.html", "User already exists.")

\* C1: a login POST succeeds (session set to the identity, redirect to the
\* dashboard) iff the store held an account for the submitted identity whose
\* password equals the submitted one exactly; otherwise it fails with
\* 'Invalid credentials.' and leaves the session as it was.
C1_LoginIffExactMatch ==
  InFlight("login", "POST") =>
    IF Email \in DOMAIN prevUSERS /\ prevUSERS[Email].password = Password
    THEN Succeeded /\ session[Client] = Authenticated(Email)
    ELSE InvalidCredentials /\ session = prevSession

\* A login with the right identity and a password that differs from the
\* stored one in case only has been refused.
C1_Witness ==
  /\ InFlight("login", "POST")
  /\ Email \in DOMAIN prevUSERS
  /\ prevUSERS[Email].password = Str(PasswordPool[1])
  /\ Password = Str(PasswordPool[2])
  /\ InvalidCredentials

\* C2: a register POST with non-empty identity and password, the identity
\* not yet in the store, succeeds: the store then holds the account with the
\* submitted password and the client's session is that identity, whatever it
\* was before.
C2_RegisterNewSucceeds ==
  (InFlight("register", "POST") /\ HasText(Email) /\ HasText(Password)
     /\ Email \notin DOMAIN prevUSERS) =>
    /\ Succeeded
    /\ Email \in DOMAIN USERS
    /\ USERS[Email].password = Password
    /\ session[Client] = Authenticated(Email)

\* A client already authenticated as another identity has registered a new one.
C2_Witness ==
  /\ RegisterSucceeded
  /\ Email \notin DOMAIN prevUSERS
  /\ prevSession[Client] /= Anonymous
  /\ prevSession[Client] /= Authenticated(Email)
  /\ session[Client] = Authenticated(Email)

\* C3 as stated: a register POST for an identity already in the store fails
\* with the duplicate-identity outcome, whatever password it supplies, and
\* leaves the store unchanged.
C3_DuplicateWhateverPassword ==
  (InFlight("register", "POST") /\ Email \in DOMAIN prevUSERS) =>
    DuplicateIdentity /\ USERS = prevUSERS

\* C3 amended: a register POST for an identity already in the store leaves
\* the store unchanged (the first password is retained) and fails: with the
\* duplicate-identity outcome when its password is non-empty, with the
\* validation outcome when its password is empty or missing.
C3_DuplicateRejected ==
  (InFlight("register", "POST") /\ Email \in DOMAIN prevUSERS) =>
    /\ USERS = prevUSERS
    /\ IF HasText(Password) THEN DuplicateIdentity ELSE ValidationFailed

\* A second registration with another password has been refused as a duplicate.
C3_Witness ==
  /\ InFlight("register", "POST")
  /\ Email \in DOMAIN prevUSERS
  /\ HasText(Password)
  /\ prevUSERS[Email].password /= Password
  /\ DuplicateIdentity
  /\ USERS[Email].password = prevUSERS[Email].password

\* C4: a register POST whose identity or password is empty or missing fails
\* with the validation outcome and leaves the store as it was.
C4_RegisterInvalidRejected ==
  (InFlight("register", "POST") /\ (~HasText(Email) \/ ~HasText(Password))) =>
    ValidationFailed /\ USERS = prevUSERS

\* A registration with an empty password for a new identity has been refused.
C4_Witness ==
  /\ InFlight("register", "POST")
  /\ HasText(Email)
  /\ Email \notin DOMAIN prevUSERS
  /\ Password = Str("")
  /\ ValidationFailed
  /\ USERS = prevUSERS

\* C5: a dashboard request by a client whose latest session-changing outcome
\* is a successful register or login for X is granted and greets X; one whose
\* latest such outcome is a logout is redirected to login.
C5_DashboardFollowsLastAuth ==
  InFlight("dashboard", "GET") =>
    /\ lastAuth[Client].kind = "in" => response = DashboardPage(lastAuth[Client].id)
    /\ lastAuth[Client].kind = "out" => response = Redirect("login")

\* A client that logged out has been refused the dashboard while another
\* client is still authenticated.
C5_Witness ==
  /\ InFlight("dashboard", "GET")
  /\ lastAuth[Client].kind = "out"
  /\ response = Redirect("login")
  /\ \E d \in Clients : lastAuth[d].kind = "in"

\* C6: a dashboard request greets X exactly when the client's session holds
\* X and redirects to login exactly when it holds no identity; it changes
\* neither the session nor the store.
C6_DashboardReadsSession ==
  InFlight("dashboard", "GET") =>
    /\ USERS = prevUSERS
    /\ session = prevSession
    /\ IF "user_id" \in DOMAIN session[Client]
       THEN response = DashboardPage(session[Client]["user_id"])
       ELSE response = Redirect("login")

\* An authenticated client has been shown the dashboard.
C6_Witness ==
  /\ InFlight("dashboard", "GET")
  /\ \E i \in Identities : /\ session[Client] = Authenticated(Str(i))
                           /\ response = DashboardPage(Str(i))

\* C7: the store is insert-only: every account the request found is still
\* there with the same password and role, and only a successful register
\* changes the store.
C7_StoreInsertOnly ==
  /\ \A k \in DOMAIN prevUSERS : k \in DOMAIN USERS /\ USERS[k] = prevUSERS[k]
  /\ USERS /= prevUSERS => RegisterSucceeded

\* A registration has added a second account beside an existing one.
C7_Witness ==
  /\ RegisterSucceeded
  /\ prevUSERS /= EmptyDict
  /\ DOMAIN USERS = DOMAIN prevUSERS \cup {Email}
  /\ Email \notin DOMAIN prevUSERS

\* C8: every account in the store has role 'user', whatever role a register
\* request supplied.
C8_RoleAlwaysUser == \A k \in DOMAIN USERS : USERS[k].role = "user"

\* A registration that supplied role 'admin' has created an account.
C8_Witness ==
  /\ RegisterSucceeded
  /\ "role" \in DOMAIN request.form
  /\ request.form["role"] = "admin"
  /\ Email \in DOMAIN USERS

\* C9: a session starts Anonymous; it becomes Authenticated(X) only by its
\* own client's successful register or login for X and Anonymous only by its
\* own client's logout; every other request leaves every session as it was.
C9_SessionTransitions ==
  /\ \A d \in Clients : lastAuth[d].kind = "none" => session[d] = Anonymous
  /\ \A d \in Clients :
       session[d] /= prevSession[d] =>
         /\ d = Client
         /\ \/ (RegisterSucceeded \/ LoginSucceeded) /\ session[d] = Authenticated(Email)
            \/ InFlight("logout", "GET") /\ session[d] = Anonymous
  /\ (request /= NoRequest /\ ~RegisterSucceeded /\ ~LoginSucceeded
        /\ ~InFlight("logout", "GET")) => session = prevSession

\* A login has failed for a client that was authenticated, and it still is.
C9_Witness ==
  /\ InFlight("login", "POST")
  /\ InvalidCredentials
  /\ prevSession[Client] /= Anonymous
  /\ session[Client] = prevSession[Client]

\* C10: a successful register or login for B by a client whose session is
\* Authenticated(A) makes that session Authenticated(B), and leaves every
\* other client's session as it was.
C10_ReauthenticationReplaces ==
  ((RegisterSucceeded \/ LoginSucceeded) /\ prevSession[Client] /= Anonymous) =>
    /\ session[Client] = Authenticated(Email)
    /\ \A d \in Clients \ {Client} : session[d] = prevSession[d]

\* Two clients were authenticated as A; one has logged in as B and the other
\* is still authenticated as A.
C10_Witness ==
  /\ LoginSucceeded
  /\ \E d \in Clients \ {Client} :
       /\ prevSession[d] = prevSession[Client]
       /\ prevSession[d] /= Anonymous
       /\ prevSession[d] /= Authenticated(Email)
       /\ session[d] = prevSession[d]
       /\ session[Client] = Authenticated(Email)

\* C11: logout never fails and is idempotent: every logout, also one by an
\* Anonymous client, answers with the redirect to the landing page and leaves
\* the client Anonymous and the store as it was; a second logout right after
\* it would change nothing.
C11_LogoutIdempotent ==
  InFlight("logout", "GET") =>
    /\ response = Redirect("index")
    /\ session[Client] = Anonymous
    /\ USERS = prevUSERS
    /\ prevSession[Client] = Anonymous => session = prevSession
    /\ SessionPop(session, Client) = session

\* A client that had already logged out (or never logged in) has logged out
\* while accounts exist, and got the normal redirect.
C11_Witness ==
  /\ InFlight("logout", "GET")
  /\ prevSession[Client] = Anonymous
  /\ USERS /= EmptyDict
  /\ response = Redirect("index")
  /\ session = prevSession

\* C12: a request by one client leaves the session of every other client as
\* it was.
C12_SessionsNotShared ==
  request /= NoRequest =>
    \A d \in Clients \ {Client} : session[d] = prevSession[d]

\* A client has logged out while another client, authenticated as the same
\* identity, stays authenticated.
C12_Witness ==
  /\ InFlight("logout", "GET")
  /\ prevSession[Client] /= Anonymous
  /\ session[Client] = Anonymous
  /\ \E d \in Clients \ {Client} :
       prevSession[d] = prevSession[Client] /\ session[d] = prevSession[d]

\* What a login POST with form g would answer in store `users` when it fails.
LoginFailureOf(users, g) ==
  RenderTemplate("login.html",
                 LoginError(users, FormGet(g, "email"), FormGet(g, "password")))
LoginFails(users, g) ==
  LoginError(users, FormGet(g, "email"), FormGet(g, "password")) /= ""

\* C14: every failed login looks the same: in every reachable store the
\* response is the login form with 'Invalid credentials.', equal to the
\* response of every other failing login in that store (unknown identity or
\* wrong password alike), and session and store are unchanged.
C14_LoginFailuresIndistinguishable ==
  (InFlight("login", "POST") /\ ~Succeeded) =>
    /\ InvalidCredentials
    /\ session = prevSession
    /\ USERS = prevUSERS
    /\ \A g \in LoginForms :
         LoginFails(prevUSERS, g) => LoginFailureOf(prevUSERS, g) = response

\* A login for an unknown identity has failed in a store where a login for a
\* known identity with a wrong password fails too.
C14_Witness ==
  /\ InFlight("login", "POST")
  /\ HasText(Email)
  /\ Email \notin DOMAIN prevUSERS
  /\ InvalidCredentials
  /\ \E g \in LoginForms :
       /\ FormGet(g, "email") \in DOMAIN prevUSERS
       /\ HasText(FormGet(g, "password"))
       /\ LoginFails(prevUSERS, g)

\* C15: in register, validation comes before the duplicate check: an empty
\* or missing identity or password yields the validation outcome, also when
\* the identity is in the store, and the duplicate-identity outcome occurs
\* only when both fields are non-empty (and the identity is in the store).
C15_ValidationBeforeDuplicate ==
  InFlight("register", "POST") =>
    /\ (~HasText(Email) \/ ~HasText(Password)) => ValidationFailed
    /\ DuplicateIdentity =>
         HasText(Email) /\ HasText(Password) /\ Email \in DOMAIN prevUSERS

\* A registration without a password for an identity that is in the store
\* has got the validation outcome.
C15_Witness ==
  /\ InFlight("register", "POST")
  /\ Email \in DOMAIN prevUSERS
  /\ Password = None
  /\ ValidationFailed

\* C16: a session identity, when present, is a non-empty identity that has
\* an account in the store.
C16_SessionIdentityRegistered ==
  \A c \in Clients :
    "user_id" \in DOMAIN session[c] =>
      HasText(session[c]["user_id"]) /\ session[c]["user_id"] \in DOMAIN USERS

\* Two clients hold sessions for two different accounts.
C16_Witness ==
  \E c, d \in Clients :
    /\ session[c] /= Anonymous
    /\ session[d] /= Anonymous
    /\ session[c] /= session[d]
    /\ session[c]["user_id"] \in DOMAIN USERS
    /\ session[d]["user_id"] \in DOMAIN USERS

\* C17: a client's session holds X only if it held X before the request, or
\* the request is that client's own register that created X's account, or
\* that client's own login for X with exactly X's stored password; sessions
\* are empty before a client's first such request.
C17_AuthenticationSound ==
  \A d \in Clients :
    "user_id" \in DOMAIN session[d] =>
      LET X == session[d]["user_id"]
      IN \/ prevSession[d] = Authenticated(X)
         \/ /\ d = Client
            /\ Email = X
            /\ \/ /\ InFlight("register", "POST")
                  /\ X \notin DOMAIN prevUSERS
                  /\ X \in DOMAIN USERS
               \/ /\ InFlight("login", "POST")
                  /\ X \in DOMAIN prevUSERS
                  /\ prevUSERS[X].password = Password

\* A client has obtained a session by logging in, with the stored password,
\* to an account whose creator holds a session for it as well.
C17_Witness ==
  /\ LoginSucceeded
  /\ prevSession[Client] = Anonymous
  /\ session[Client] = Authenticated(Email)
  /\ prevUSERS[Email].password = Password
  /\ \E d \in Clients \ {Client} : session[d] = Authenticated(Email)

\* C18: every key of the store is a non-empty identity and every stored
\* password is non-empty, and a login that omits the password or submits an
\* empty one does not succeed.
C18_StoredCredentialsNonEmpty ==
  /\ \A k \in DOMAIN USERS : HasText(k) /\ HasText(USERS[k].password)
  /\ (InFlight("login", "POST") /\ ~HasText(Password)) => InvalidCredentials

\* A login with an empty password for an identity that has an account has
\* been refused.
C18_Witness ==
  /\ InFlight("login", "POST")
  /\ Email \in DOMAIN USERS
  /\ Password = Str("")
  /\ InvalidCredentials

(***************************************************************************)
(* Concurrent registrations.  The development server handles each request  *)
(* in a thread of its own, and register does not lock USERS: a thread may  *)
(* be preempted between the existence check (line 34) and the insert (line *)
(* 37).  SpecRace models register with these as separate steps, one thread *)
(* per client.  Under SpecRace, request[c] and response[c] hold the        *)
(* exchange of client c's thread: request[c] = NoRequest when it is idle,  *)
(* response[c] = NoResponse while the handler has not returned; prevUSERS, *)
(* prevSession and lastAuth are not used.                                  *)
(***************************************************************************)
InitRace ==
  /\ USERS = EmptyDict
  /\ session = [c \in Clients |-> EmptyDict]
  /\ request = [c \in Clients |-> NoRequest]
  /\ response = [c \in Clients |-> NoResponse]
  /\ prevUSERS = EmptyDict
  /\ prevSession = [c \in Clients |-> EmptyDict]
  /\ lastAuth = [c \in Clients |-> [kind |-> "none", id |-> None]]

\* Lines 27-35: read the form, validate, test `email in USERS`.  On an error
\* the handler returns the form; otherwise it goes on to the insert.
registerCheck(c, form) ==
  LET email == FormGet(form, "email")
      password == FormGet(form, "password")
      error == RegisterError(USERS, email, password)
  IN /\ request[c] = NoRequest
     /\ request' = [request EXCEPT
                      ![c] = [client |-> c, route |-> "register", method |-> "POST",
                              form |-> form]]
     /\ response' = [response EXCEPT
                       ![c] = IF error = "" THEN NoResponse
                              ELSE RenderTemplate("register.html", error)]
     /\ UNCHANGED <<USERS, session, prevUSERS, prevSession, lastAuth>>

\* Lines 37-39: insert the account, set the session, redirect.
registerInsert(c) ==
  LET form == request[c].form
      email == FormGet(form, "email")
      password == FormGet(form, "password")
      role == RegisterRole(form)
  IN /\ request[c] /= NoRequest
     /\ response[c] = NoResponse
     /\ USERS' = DictSet(USERS, email, [password |-> password, role |-> role])
     /\ session' = SessionSet(session, c, email)
     /\ response' = [response EXCEPT ![c] = Redirect("dashboard")]
     /\ UNCHANGED <<request, prevUSERS, prevSession, lastAuth>>

\* The response of client c's thread has been sent; the thread is idle again.
registerReturn(c) ==
  /\ response[c] /= NoResponse
  /\ request' = [request EXCEPT ![c] = NoRequest]
  /\ response' = [response EXCEPT ![c] = NoResponse]
  /\ UNCHANGED <<USERS, session, prevUSERS, prevSession, lastAuth>>

NextRace ==
  \/ \E c \in Clients : \E form \in RegisterForms : registerCheck(c, form)
  \/ \E c \in Clients : registerInsert(c)
  \/ \E c \in Clients : registerReturn(c)

SpecRace == InitRace /\ [][NextRace]_vars

\* C13: concurrent registrations behave as some serial order of them: a
\* registration that succeeded finds its own password stored for its
\* identity (no later write has replaced it), and no other registration in
\* progress has succeeded for the same identity.
C13_RaceSerializable ==
  \A c \in Clients :
    response[c] = Redirect("dashboard") =>
      LET email == FormGet(request[c].form, "email")
      IN /\ USERS[email].password = FormGet(request[c].form, "password")
         /\ \A d \in Clients \ {c} :
              ~ /\ response[d] = Redirect("dashboard")
                /\ FormGet(request[d].form, "email") = email

====
